---- MODULE Spec2Model ----
(***************************************************************************)
(* A model of backend/app/nlp.py: the rule-based key-point ranker          *)
(* (extract_key_points) and the quiz synthesizer (generate_quiz), with     *)
(* the string primitives of Python they are built from.  Python's str is   *)
(* a TLA+ string; a list is a sequence; a tuple of `scored` is a record.   *)
(* Around them: two runs of the ranker compared, calls running side by     *)
(* side in thread-pool workers, the upload handler of backend/app/main.py  *)
(* and the lazily loaded models of asr.py and nlp.py.                      *)
(***************************************************************************)
EXTENDS Integers, Sequences, FiniteSets, TLC

(***************************************************************************)
(* Python string primitives.                                               *)
(***************************************************************************)

\* s[i-1] in Python: the i-th character, as a one-character string.
At(s, i) == SubSeq(s, i, i)

\* The characters str.strip() and str.split() treat as white space.
Whitespace == {" ", "\t", "\n"}

\* The character class of re.split(r'[.!?]+', ...).
Terminators == {".", "!", "?"}

\* The argument of w.strip('.,!?;:()[]"\'').
Punctuation == {".", ",", "!", "?", ";", ":", "(", ")", "[", "]", "\"", "'"}

UpperAlphabet == "ABCDEFGHIJKLMNOPQRSTUVWXYZ"

LowerAlphabet == "abcdefghijklmnopqrstuvwxyz"

Min(S) == CHOOSE m \in S : \A o \in S : m <= o

Max(S) == CHOOSE m \in S : \A o \in S : m >= o

UpperChars == {At(UpperAlphabet, i) : i \in 1..Len(UpperAlphabet)}

\* str.lower() on one character.
LowerChar(c) ==
    IF c \in UpperChars
    THEN At(LowerAlphabet, CHOOSE i \in 1..Len(UpperAlphabet) : At(UpperAlphabet, i) = c)
    ELSE c

RECURSIVE LowerFrom(_, _)
\* The characters of s from position i on, each lowered.
LowerFrom(s, i) ==
    IF i > Len(s) THEN "" ELSE LowerChar(At(s, i)) \o LowerFrom(s, i + 1)

\* str.lower().
Lower(s) == LowerFrom(s, 1)

\* s.strip(chars): the leading and trailing characters of `chars` removed.
StripChars(s, chars) ==
    LET keep == {i \in 1..Len(s) : At(s, i) \notin chars}
    IN  IF keep = {} THEN "" ELSE SubSeq(s, Min(keep), Max(keep))

\* s.strip().
Strip(s) == StripChars(s, Whitespace)

\* `sub in s` on strings.
Contains(s, sub) ==
    \E i \in 1..(Len(s) - Len(sub) + 1) : SubSeq(s, i, i + Len(sub) - 1) = sub

\* s.endswith(('.', '!', '?')).
EndsWithTerminator(s) == Len(s) > 0 /\ At(s, Len(s)) \in Terminators

\* F applied to the value of x (x is evaluated once, whatever F does with it).
Let(x, F(_)) == CHOOSE r \in {F(v) : v \in {x}} : TRUE

RECURSIVE Ascending(_)
\* The numbers of a finite set, smallest first.
Ascending(S) ==
    IF S = {} THEN <<>> ELSE Let(Min(S), LAMBDA m : <<m>> \o Ascending(S \ {m}))

\* The maximal runs of s that avoid the positions sepAt, in order.
Runs(s, sepAt) ==
    LET n == Len(s)
        starts == {i \in 1..n : i \notin sepAt /\ (i = 1 \/ (i - 1) \in sepAt)}
        ends == {i \in 1..n : i \notin sepAt /\ (i = n \/ (i + 1) \in sepAt)}
    IN  Let(<<Ascending(starts), Ascending(ends)>>,
            LAMBDA b : [k \in 1..Len(b[1]) |-> SubSeq(s, b[1][k], b[2][k])])

\* The pieces of s between the runs of characters of `seps`, in order: each
\* maximal run of other characters, and, with keepEmpty, an empty piece at an
\* end of s that a separator touches (as re.split keeps and str.split() drops).
SplitOn(s, seps, keepEmpty) ==
    Let({i \in 1..Len(s) : At(s, i) \in seps},
        LAMBDA sepAt :
            IF ~keepEmpty THEN Runs(s, sepAt)
            ELSE IF Len(s) = 0 THEN <<"">>
            ELSE (IF 1 \in sepAt THEN <<"">> ELSE <<>>) \o Runs(s, sepAt)
                 \o (IF Len(s) \in sepAt THEN <<"">> ELSE <<>>))

\* re.split(r'[.!?]+', text).
ReSplit(text) == SplitOn(text, Terminators, TRUE)

\* s.split(): the white-space separated words, none empty.
Words(s) == SplitOn(s, Whitespace, FALSE)

RECURSIVE Join(_, _)
\* sep.join(seq).
Join(seq, sep) ==
    IF seq = <<>> THEN ""
    ELSE IF Len(seq) = 1 THEN seq[1]
    ELSE seq[1] \o sep \o Join(Tail(seq), sep)

Range(seq) == {seq[i] : i \in DOMAIN seq}

(***************************************************************************)
(* extract_key_points, the local rule-based path (nlp.py lines 139-160).   *)
(***************************************************************************)

\* A fragment qualifies when its trimmed length exceeds this.
MinSentenceLen == 20

\* important_keywords.
ImportantKeywords == {"important", "key", "theory", "principle", "therefore", "result"}

\* The word-count window of a well-formed sentence, and the two base scores.
WellFormedMinWords == 10

WellFormedMaxWords == 25

WellFormedScore == 10

OtherScore == 5

\* The score of each importance keyword found in a sentence.
KeywordScore == 8

\* The positional bonus max(0, PositionBonus - idx // PositionStep).
PositionBonus == 10

PositionStep == 3

\* A variant that keeps a fragment of exactly MinSentenceLen characters.
SentencesFromMinLen(txt) ==
    LET frags == ReSplit(txt)
        stripped == [i \in DOMAIN frags |-> Strip(frags[i])]
    IN  SelectSeq(stripped, LAMBDA s : Len(s) >= MinSentenceLen)

\* sentences = [s.strip() for s in re.split(r'[.!?]+', text) if len(s.strip()) > 20]
Sentences(txt) ==
    LET frags == ReSplit(txt)
        stripped == [i \in DOMAIN frags |-> Strip(frags[i])]
    IN  SelectSeq(stripped, LAMBDA s : Len(s) > MinSentenceLen)

\* 10 if 10 <= len(sentence.split()) <= 25 else 5
BaseScore(sentence) ==
    LET n == Len(Words(sentence))
    IN  IF WellFormedMinWords <= n /\ n <= WellFormedMaxWords
        THEN WellFormedScore ELSE OtherScore

\* A variant that matches the keywords against the sentence as written.
KeywordBonusAsWritten(sentence) ==
    KeywordScore * Cardinality({k \in ImportantKeywords : Contains(sentence, k)})

\* sum(8 for k in important_keywords if k in sentence.lower())
KeywordBonus(sentence) ==
    Let(Lower(sentence),
        LAMBDA low : KeywordScore * Cardinality({k \in ImportantKeywords : Contains(low, k)}))

\* max(0, 10 - (idx // 3)), idx the 0-based position.
PositionScore(idx) ==
    LET b == PositionBonus - (idx \div PositionStep) IN IF b > 0 THEN b ELSE 0

\* The score of the sentence at 0-based position idx.
SentenceScore(sentence, idx) ==
    BaseScore(sentence) + KeywordBonus(sentence) + PositionScore(idx)

\* The list `scored` of (score, sentence, idx) tuples, in the order of the text.
Scored(sents) ==
    [i \in 1..Len(sents) |->
        [score |-> SentenceScore(sents[i], i - 1), sentence |-> sents[i], idx |-> i - 1]]

\* One step of a stable sort: x goes before the first element it must precede.
InsertBefore(acc, x, precedes) ==
    IF precedes = {} THEN Append(acc, x)
    ELSE SubSeq(acc, 1, Min(precedes) - 1) \o <<x>> \o SubSeq(acc, Min(precedes), Len(acc))

RECURSIVE SortByScoreDescLastFirst(_, _)
\* A variant that is not stable: of two equal scores the later goes first (an
\* ascending sort, reversed).
SortByScoreDescLastFirst(seq, n) ==
    IF n = 0 THEN <<>>
    ELSE LET acc == SortByScoreDescLastFirst(seq, n - 1)
         IN  InsertBefore(acc, seq[n], {i \in 1..Len(acc) : seq[n].score >= acc[i].score})

RECURSIVE SortByScoreDesc(_, _)
\* scored.sort(reverse=True, key=lambda x: x[0]) on the first n elements: a
\* stable sort, elements of equal score keep their order.
SortByScoreDesc(seq, n) ==
    IF n = 0 THEN <<>>
    ELSE LET acc == SortByScoreDesc(seq, n - 1)
         IN  InsertBefore(acc, seq[n], {i \in 1..Len(acc) : seq[n].score > acc[i].score})

RECURSIVE SortByIdx(_, _)
\* sorted(..., key=lambda x: x[2]) on the first n elements.
SortByIdx(seq, n) ==
    IF n = 0 THEN <<>>
    ELSE LET acc == SortByIdx(seq, n - 1)
         IN  InsertBefore(acc, seq[n], {i \in 1..Len(acc) : seq[n].idx < acc[i].idx})

\* seq[:n]
Take(seq, n) == SubSeq(seq, 1, IF n < Len(seq) THEN n ELSE Len(seq))

\* A variant that leaves the selection in score order.
TopInScoreOrder(scoredList, num_points) ==
    Take(SortByScoreDesc(scoredList, Len(scoredList)), num_points)

\* top = sorted(scored[:num_points], key=lambda x: x[2]) after the sort of scored.
Top(scoredList, num_points) ==
    LET ranked == SortByScoreDesc(scoredList, Len(scoredList))
        first == Take(ranked, num_points)
    IN  SortByIdx(first, Len(first))

\* A variant that appends the full stop whatever the string ends in.
NormalizeAlways(s) == s \o "."

\* s + "." if not s.endswith(('.', '!', '?')) else s
Normalize(s) == IF ~EndsWithTerminator(s) THEN s \o "." ELSE s

\* The sentinel returned when no fragment qualifies.
NoKeyPoints == <<"No key points could be extracted.">>

\* The local path of extract_key_points: its locals and its return value.
ExtractKeyPointsLocal(txt, num_points) ==
    LET sents == Sentences(txt)
    IN  IF sents = <<>>
        THEN [sentences |-> sents, scored |-> <<>>, top |-> <<>>, result |-> NoKeyPoints]
        ELSE IF Len(sents) <= num_points
        THEN [sentences |-> sents, scored |-> <<>>, top |-> <<>>,
              result |-> [i \in 1..Len(sents) |-> Normalize(sents[i])]]
        ELSE LET sc == Scored(sents)
                 tp == Top(sc, num_points)
             IN  [sentences |-> sents, scored |-> sc, top |-> tp,
                  result |-> [i \in 1..Len(tp) |-> Normalize(Strip(tp[i].sentence))]]

(***************************************************************************)
(* generate_quiz, the local rule-based path (nlp.py lines 193-262).        *)
(***************************************************************************)

\* candidate_sentences = extract_key_points(text, num_questions * 3)
Oversample == 3

\* Words of at most this length are neither blanked nor used as distractors.
MaxShortWord == 5

\* Sentences of fewer words than this are skipped.
MinQuizWords == 8

\* while len(options) < 4
NumOptions == 4

\* common_words.
CommonWords ==
    {"the", "a", "an", "is", "are", "was", "were", "and", "but", "in", "on", "at",
     "to", "for", "of", "with", "that", "this", "these", "those", "from", "by", "as",
     "lecture", "concept"}

\* w.strip('.,!?;:()[]"\'')
StripPunct(w) == StripChars(w, Punctuation)

\* len(w) > 5 and w.lower() not in common_words, w already stripped.
IsSalient(w) == Len(w) > MaxShortWord /\ Lower(w) \notin CommonWords

\* valid_words of one sentence (lines 207-208).
ValidWords(sentence) ==
    LET ws == Words(sentence)
    IN  SelectSeq([i \in DOMAIN ws |-> StripPunct(ws[i])], IsSalient)

RECURSIVE DistractorPool(_)
\* all_potential_distractors after the loop of lines 206-209.
DistractorPool(candidates) ==
    IF candidates = <<>> THEN <<>>
    ELSE DistractorPool(SubSeq(candidates, 1, Len(candidates) - 1))
         \o ValidWords(candidates[Len(candidates)])

\* candidates = [(i, stripped word)] of the blankable words (lines 220-221);
\* i is the 1-based position in words.
BlankCandidates(ws) ==
    SelectSeq([i \in DOMAIN ws |-> [i |-> i, w |-> StripPunct(ws[i])]],
              LAMBDA c : IsSalient(c.w))

BlankMarker == "__________"

\* A variant that strips the punctuation of the tokens it keeps.
QuestionTextStripped(ws, blank_idx) ==
    "Complete the statement: \""
    \o Join([i \in DOMAIN ws |-> IF i = blank_idx THEN BlankMarker ELSE StripPunct(ws[i])], " ")
    \o "\""

\* question_text of lines 232-234.
QuestionText(ws, blank_idx) ==
    "Complete the statement: \""
    \o Join([i \in DOMAIN ws |-> IF i = blank_idx THEN BlankMarker ELSE ws[i]], " ")
    \o "\""

\* A variant with a lower word limit.
TooShortBelowSix(ws) == Len(ws) < MinQuizWords - 2

\* if len(words) < 8: continue
TooShort(ws) == Len(ws) < MinQuizWords

\* A variant that looks the answer up as written.
IsUsedAsWritten(w, used) == w \in used

\* if answer.lower() in used_answers: continue
IsUsed(w, used) == Lower(w) \in used

\* A variant that starts the list from the lowered answer.
InitialOptionsLowered(ans) == <<Lower(ans)>>

\* options = [answer]
InitialOptions(ans) == <<ans>>

\* A variant that excludes only the answer as written.
CurrentDistractorsAsWritten(pool, ans) == SelectSeq(pool, LAMBDA d : d # ans)

\* current_distractors = [d for d in pool if d.lower() != answer.lower()]
CurrentDistractors(pool, ans) == SelectSeq(pool, LAMBDA d : Lower(d) # Lower(ans))

\* if distractor not in options: options.append(distractor)
AddDistractor(opts, d) == IF d \notin Range(opts) THEN Append(opts, d) ELSE opts

\* A variant with a third filler.
PaddingOfThree(ans) == <<"Not " \o ans, "None of the above", "All of the above">>

\* The two fillers appended when current_distractors is empty (lines 249-250).
Padding(ans) == <<"Not " \o ans, "None of the above">>

\* The arrangements of n positions, for the lists the option loop can build
\* (NumOptions + 1 is one filler past a full list).
Arrangements ==
    [n \in 0..(NumOptions + 1) |->
        {p \in [1..n -> 1..n] : \A i, j \in 1..n : i # j => p[i] # p[j]}]

\* The outcomes of random.shuffle(options): every arrangement of the list.
Shuffles(opts) == {[i \in 1..Len(opts) |-> opts[p[i]]] : p \in Arrangements[Len(opts)]}

QuizQuestion(q, opts, ans) == [question |-> q, options |-> opts, correct_answer |-> ans]

\* The question returned by the except branch (line 266).
Placeholder == QuizQuestion("What is a key concept here?", <<"A", "B", "C", "D">>, "A")

(***************************************************************************)
(* The OpenAI path: what the remote service returns is not in the          *)
(* program's hands, so its replies are drawn from a small set.             *)
(***************************************************************************)

\* A reply to the key-point request: a fault, or the message content.
RemoteKeyPointReplies ==
    {[fault |-> TRUE, content |-> ""],
     [fault |-> FALSE, content |-> "- Cells make energy.\n\n2. Plants store it.\n * Both matter"],
     [fault |-> FALSE, content |-> "  "]}

\* The characters of the class [\s\-*\d.] of line 136 (the bullet sign, which is
\* not ASCII, is left out: no reply of the model holds one).
BulletChars ==
    Whitespace \cup {"-", "*", ".", "0", "1", "2", "3", "4", "5", "6", "7", "8", "9"}

\* re.sub(r'^[\s\-*\d.]+', '', line)
StripBullet(line) ==
    LET keep == {i \in 1..Len(line) : At(line, i) \notin BulletChars}
    IN  IF keep = {} THEN "" ELSE SubSeq(line, Min(keep), Len(line))

\* points of line 136, cut to num_points (line 137).
ParseKeyPoints(content, num_points) ==
    LET lines == SelectSeq(SplitOn(Strip(content), {"\n"}, TRUE),
                           LAMBDA l : Strip(l) # "")
    IN  Take([i \in DOMAIN lines |-> Strip(StripBullet(lines[i]))], num_points)

\* The except branch of extract_key_points (lines 162-165).
FallbackKeyPoints(txt, num_points) ==
    LET frags == SelectSeq(ReSplit(txt), LAMBDA f : Strip(f) # "")
    IN  Take([i \in DOMAIN frags |-> Strip(frags[i]) \o "."], num_points)

\* A reply to the quiz request: a fault (the call or json.loads raises), or the
\* decoded JSON object, with or without a "quiz" list of well-formed questions.
RemoteQuizReplies ==
    {[fault |-> TRUE, hasQuiz |-> FALSE, quiz |-> <<>>],
     [fault |-> FALSE, hasQuiz |-> FALSE, quiz |-> <<>>],
     [fault |-> FALSE, hasQuiz |-> TRUE,
      quiz |-> <<QuizQuestion("Q1?", <<"A", "B">>, "A"),
                 QuizQuestion("Q2?", <<"A", "B", "C", "D">>, "D")>>]}

(***************************************************************************)
(* The inputs: texts made of a few pieces, each a fragment with its        *)
(* terminator, joined by single spaces.                                    *)
(***************************************************************************)

\* The longest text given to extract_key_points, in pieces.
MaxSentences == 4

\* The longest text given to generate_quiz, in pieces.
MaxQuizSentences == 3

\* The largest num_points and num_questions.
MaxNumPoints == 3

MaxNumQuestions == 2

\* Pieces for the ranker: 8, 9, 10 and 26 words; no keyword, several, one twice;
\* a fragment of 13 characters and one of exactly 20.
RankPieces ==
    {"The mitochondria is the powerhouse of the cell.",
     "Therefore this principle is important for biology students everywhere.",
     "the key to the key result is in a cell!",
     "a b c d e f g h i j k l m n o p q r s t u v w x y z.",
     "This is short?!",
     "exactly twenty chars."}

\* Pieces for the quiz: sentences of 8 or more words with one and with two
\* salient words, a 6-word sentence that only feeds the distractor pool, and a
\* fragment too short to qualify.
QuizPieces ==
    {"Energy is in a cell and it is in a plant.",
     "matter and energy are in a cell of a plant?",
     "Therefore this theory is in a cell!",
     "This is short."}

RECURSIVE TextsUpTo(_, _)
\* The texts of at most n pieces.
TextsUpTo(pieces, n) ==
    IF n = 0 THEN {""}
    ELSE LET shorter == TextsUpTo(pieces, n - 1)
         IN  shorter \cup {IF t = "" THEN p ELSE t \o " " \o p : t \in shorter, p \in pieces}

RankTexts == TextsUpTo(RankPieces, MaxSentences)

QuizTexts == TextsUpTo(QuizPieces, MaxQuizSentences)

\* The calls that run side by side, each in a worker of the thread pool
\* (main.py runs them through run_in_threadpool, lines 174 and 178).
NumCalls == 2

Calls == 1..NumCalls

\* The locals of a call that has not started.
IdleFrame ==
    [pc |-> "idle", fn |-> "none", text |-> "", num |-> 0,
     candidate_sentences |-> <<>>, all_potential_distractors |-> <<>>,
     quiz_questions |-> <<>>, used_answers |-> 0, si |-> 0, answer |-> "",
     question_text |-> "", options |-> <<>>, current_distractors |-> <<>>,
     result |-> <<>>]

\* The upload requests in flight at once.
NumRequests == 2

Requests == 1..NumRequests

\* A request that has not been handled yet: no response, no stage done.
NewRequest ==
    [pc |-> "start", transcript |-> "", stages |-> <<>>, status |-> 0,
     failure |-> "none", saved |-> FALSE]

\* The thread-pool workers that may call a loader at once.
NumWorkers == 2

Workers == 1..NumWorkers

\* load_whisper_model (asr.py) and load_summarization_model (nlp.py), in the
\* order startup_event calls them.
LoaderOrder == <<"whisper", "summarizer">>

Loaders == {LoaderOrder[i] : i \in DOMAIN LoaderOrder}

\* A worker that has called no loader: `made` is the instance its constructor
\* call returned, `got` the one the loader returned to it (0: none).
IdleWorker == [pc |-> "idle", loader |-> "none", made |-> 0, got |-> 0]

\* The HTTP exchange before a request is sent: no endpoint chosen, no reply.
\* `lecture` holds the document of a LectureResponse body (none: {}), `items`
\* the LectureListItem list of a list body.
NoRequest ==
    [pc |-> "idle", method |-> "", path |-> "", q |-> "", endpoint |-> "none",
     lecture_id |-> "", status |-> 0, detail |-> "", lecture |-> {},
     items |-> <<>>]

(***************************************************************************)
(* The state: the module global openai_client, the call in progress and    *)
(* the locals of the two functions.                                        *)
(***************************************************************************)
VARIABLES
    openai_client,      \* whether an OpenAI client was configured (line 15)
    pc,                 \* "idle", a position in generate_quiz, or "done"
    fn,                 \* the function called
    text,               \* its argument text
    num,                \* its argument num_points or num_questions
    sentences,          \* extract_key_points: the qualifying sentences
    scored,             \* extract_key_points: scored, as appended
    top,                \* extract_key_points: top
    key_points,         \* the value extract_key_points returned
    candidate_sentences,
    all_potential_distractors,
    quiz_questions,
    used_answers,
    si,                 \* 1-based position of the for loop of line 213
    answer,
    question_text,
    options,
    current_distractors,
    quiz,               \* the value generate_quiz returned
    outcome,            \* how the call ended: "local", "remote" or "except"
    det_pc,             \* two runs of extract_key_points: "idle", "first", "both"
    det_text,           \* their argument text
    det_num,            \* their argument num_points
    det_order,          \* the iteration order of important_keywords in the first run
    det_first,          \* what the first run returned
    det_second,         \* what the second run returned
    frame,              \* concurrent calls: the locals of each call
    sets,               \* concurrent calls: the set objects made by `set()`
    req,                \* upload_lecture: the state of each request
    disk,               \* the requests whose audio file is in the upload directory
    db,                 \* the lecture records inserted, in order
    started,            \* whether startup_event has run
    loaded,             \* the globals _whisper_model and _summarizer: 0 is None
    built,              \* how many times each model constructor has run
    wk,                 \* the thread-pool workers calling a loader
    http,               \* routing: the request in flight and its reply
    lectures,           \* routing: the documents of the collection database.lectures
    inserted            \* routing: how many documents insert_one has stored

\* The module global and the locals of the two functions of nlp.py.
nlpVars ==
    <<openai_client, pc, fn, text, num, sentences, scored, top, key_points,
      candidate_sentences, all_potential_distractors, quiz_questions, used_answers,
      si, answer, question_text, options, current_distractors, quiz, outcome>>

\* The two runs compared for determinism.
detVars == <<det_pc, det_text, det_num, det_order, det_first, det_second>>

\* Calls running side by side in thread-pool workers.
concVars == <<frame, sets>>

\* The upload requests, the upload directory and the lecture collection.
upVars == <<req, disk, db>>

\* The lazily loaded models and the workers that ask for them.
loadVars == <<started, loaded, built, wk>>

\* The request being routed and the lecture collection its endpoint works on.
routeVars == <<http, lectures, inserted>>

\* What a call of extract_key_points or generate_quiz alone leaves as it is.
beyondNlp == <<detVars, concVars, upVars, loadVars, routeVars>>

\* What the two compared runs leave as it is.
beyondDet == <<nlpVars, concVars, upVars, loadVars, routeVars>>

\* What the calls in the workers leave as it is.
beyondConc == <<nlpVars, detVars, upVars, loadVars, routeVars>>

\* What upload_lecture leaves as it is.
beyondUp == <<nlpVars, detVars, concVars, loadVars, routeVars>>

\* What the loaders leave as it is.
beyondLoad == <<nlpVars, detVars, concVars, upVars, routeVars>>

\* What the routing of a request and its endpoint leave as they are.
beyondRoute == <<nlpVars, detVars, concVars, upVars, loadVars>>

vars == <<nlpVars, beyondNlp>>

kpVars == <<sentences, scored, top, key_points>>

loopVars == <<answer, question_text, options, current_distractors>>

quizVars ==
    <<candidate_sentences, all_potential_distractors, quiz_questions, used_answers,
      si, quiz>>

callVars == <<openai_client, fn, text, num>>

Init ==
    /\ openai_client \in BOOLEAN
    /\ pc = "idle"
    /\ fn = "none"
    /\ text = ""
    /\ num = 0
    /\ sentences = <<>>
    /\ scored = <<>>
    /\ top = <<>>
    /\ key_points = <<>>
    /\ candidate_sentences = <<>>
    /\ all_potential_distractors = <<>>
    /\ quiz_questions = <<>>
    /\ used_answers = {}
    /\ si = 0
    /\ answer = ""
    /\ question_text = ""
    /\ options = <<>>
    /\ current_distractors = <<>>
    /\ quiz = <<>>
    /\ outcome = "none"
    /\ det_pc = "idle"
    /\ det_text = ""
    /\ det_num = 0
    /\ det_order = <<>>
    /\ det_first = <<>>
    /\ det_second = <<>>
    /\ frame = [t \in Calls |-> IdleFrame]
    /\ sets = [o \in Calls |-> {}]
    /\ req = [r \in Requests |-> NewRequest]
    /\ disk = {}
    /\ db = <<>>
    /\ started = FALSE
    /\ loaded = [l \in Loaders |-> 0]
    /\ built = [l \in Loaders |-> 0]
    /\ wk = [w \in Workers |-> IdleWorker]
    /\ http = NoRequest
    /\ lectures = {}
    /\ inserted = 0

\* extract_key_points(t, k) on the local path: one synchronous call.
ExtractKeyPoints(t, k) ==
    /\ pc = "idle"
    /\ ~openai_client
    /\ \E r \in {ExtractKeyPointsLocal(t, k)} :
           /\ sentences' = r.sentences
           /\ scored' = r.scored
           /\ top' = r.top
           /\ key_points' = r.result
    /\ fn' = "extract_key_points"
    /\ text' = t
    /\ num' = k
    /\ pc' = "done"
    /\ outcome' = "local"
    /\ UNCHANGED beyondNlp
    /\ UNCHANGED <<openai_client, quizVars, loopVars>>

\* extract_key_points(t, k) on the OpenAI path: the parsed reply, or the
\* fallback of the except branch when the request raises.
ExtractKeyPointsRemote(t, k, reply) ==
    /\ pc = "idle"
    /\ openai_client
    /\ key_points' = IF reply.fault THEN FallbackKeyPoints(t, k)
                     ELSE ParseKeyPoints(reply.content, k)
    /\ outcome' = IF reply.fault THEN "except" ELSE "remote"
    /\ fn' = "extract_key_points"
    /\ text' = t
    /\ num' = k
    /\ pc' = "done"
    /\ UNCHANGED beyondNlp
    /\ UNCHANGED <<openai_client, sentences, scored, top, quizVars, loopVars>>

\* generate_quiz(t, n) on the OpenAI path: the questions of the reply, or the
\* placeholder of the except branch.
GenerateQuizRemote(t, n, reply) ==
    /\ pc = "idle"
    /\ openai_client
    /\ quiz' = IF reply.fault THEN <<Placeholder>>
               ELSE IF reply.hasQuiz THEN Take(reply.quiz, n) ELSE <<>>
    /\ outcome' = IF reply.fault THEN "except" ELSE "remote"
    /\ fn' = "generate_quiz"
    /\ text' = t
    /\ num' = n
    /\ pc' = "done"
    /\ UNCHANGED beyondNlp
    /\ UNCHANGED <<openai_client, kpVars, loopVars, candidate_sentences,
                   all_potential_distractors, quiz_questions, used_answers, si>>

\* generate_quiz(t, n) on the local path, lines 195-211: the candidate
\* sentences and the distractor pool.
GenerateQuiz(t, n) ==
    /\ pc = "idle"
    /\ ~openai_client
    /\ \E cands \in {ExtractKeyPointsLocal(t, n * Oversample).result} :
           /\ candidate_sentences' = cands
           /\ all_potential_distractors' = DistractorPool(cands)
    /\ quiz_questions' = <<>>
    /\ used_answers' = {}
    /\ si' = 1
    /\ fn' = "generate_quiz"
    /\ text' = t
    /\ num' = n
    /\ pc' = "for"
    /\ UNCHANGED beyondNlp
    /\ UNCHANGED <<openai_client, kpVars, loopVars, quiz, outcome>>

\* A variant of the loop test without the `break` of line 214.
InLoopNoBreak == si <= Len(candidate_sentences)

\* The for loop of line 213 has a sentence left and the quiz is not full.
InLoop == si <= Len(candidate_sentences) /\ Len(quiz_questions) < num

\* The loop ends (candidates exhausted, or the break of line 214): return.
Return ==
    /\ pc = "for"
    /\ ~InLoop
    /\ quiz' = quiz_questions
    /\ outcome' = "local"
    /\ pc' = "done"
    /\ UNCHANGED beyondNlp
    /\ UNCHANGED <<callVars, kpVars, loopVars, candidate_sentences,
                   all_potential_distractors, quiz_questions, used_answers, si>>

\* words = sentence.split() of the sentence the loop is at (line 216).
CurrentWords == Words(candidate_sentences[si])

\* `continue` of line 217 or 223: too few words, or nothing to blank.
SkipSentence ==
    /\ pc = "for"
    /\ InLoop
    /\ \E ws \in {CurrentWords} : TooShort(ws) \/ BlankCandidates(ws) = <<>>
    /\ si' = si + 1
    /\ UNCHANGED beyondNlp
    /\ UNCHANGED <<callVars, kpVars, loopVars, candidate_sentences, pc, outcome,
                   all_potential_distractors, quiz_questions, used_answers, quiz>>

\* random.choice(candidates) draws a word already used as an answer: `continue`
\* of line 228.
SkipUsedAnswer ==
    /\ pc = "for"
    /\ InLoop
    /\ \E ws \in {CurrentWords} :
         /\ ~TooShort(ws)
         /\ \E c \in Range(BlankCandidates(ws)) : IsUsed(c.w, used_answers)
    /\ si' = si + 1
    /\ UNCHANGED beyondNlp
    /\ UNCHANGED <<callVars, kpVars, loopVars, candidate_sentences, pc, outcome,
                   all_potential_distractors, quiz_questions, used_answers, quiz>>

\* random.choice(candidates) draws a fresh word: lines 229-240.
PickAnswer ==
    /\ pc = "for"
    /\ InLoop
    /\ \E ws \in {CurrentWords} :
         /\ ~TooShort(ws)
         /\ \E c \in Range(BlankCandidates(ws)) :
              /\ ~IsUsed(c.w, used_answers)
              /\ used_answers' = used_answers \cup {Lower(c.w)}
              /\ answer' = c.w
              /\ question_text' = QuestionText(ws, c.i)
              /\ options' = InitialOptions(c.w)
              /\ current_distractors' = CurrentDistractors(all_potential_distractors, c.w)
    /\ pc' = "opt_test"
    /\ UNCHANGED beyondNlp
    /\ UNCHANGED <<callVars, kpVars, candidate_sentences, all_potential_distractors,
                   quiz_questions, si, quiz, outcome>>

\* The test of `while len(options) < 4` (line 243).
OptTest ==
    /\ pc = "opt_test"
    /\ pc' = IF Len(options) < NumOptions THEN "opt_body" ELSE "shuffle"
    /\ UNCHANGED beyondNlp
    /\ UNCHANGED <<callVars, kpVars, loopVars, quizVars, outcome>>

\* One pass of the loop body with distractors at hand (lines 244-247).
DrawDistractor(d) ==
    /\ pc = "opt_body"
    /\ d \in Range(current_distractors)
    /\ options' = AddDistractor(options, d)
    /\ pc' = "opt_test"
    /\ UNCHANGED beyondNlp
    /\ UNCHANGED <<callVars, kpVars, quizVars, outcome, answer, question_text,
                   current_distractors>>

\* The loop body with no distractor at hand: the two fillers and `break`
\* (lines 248-251).
PadOptions ==
    /\ pc = "opt_body"
    /\ current_distractors = <<>>
    /\ options' = options \o Padding(answer)
    /\ pc' = "shuffle"
    /\ UNCHANGED beyondNlp
    /\ UNCHANGED <<callVars, kpVars, quizVars, outcome, answer, question_text,
                   current_distractors>>

\* random.shuffle(options) and quiz_questions.append(...) (lines 254-260).
EmitQuestion ==
    /\ pc = "shuffle"
    /\ \E shuffled \in Shuffles(options) :
         /\ options' = shuffled
         /\ quiz_questions' = Append(quiz_questions, QuizQuestion(question_text, shuffled, answer))
    /\ si' = si + 1
    /\ pc' = "for"
    /\ UNCHANGED beyondNlp
    /\ UNCHANGED <<callVars, kpVars, outcome, answer, question_text, current_distractors,
                   candidate_sentences, all_potential_distractors, used_answers, quiz>>

\* The distinct words a call can draw as a distractor.
DistractorWords == UNION {Range(ValidWords(p)) : p \in QuizPieces}

Next ==
    \/ \E t \in RankTexts, k \in 1..MaxNumPoints : ExtractKeyPoints(t, k)
    \/ \E t \in QuizTexts, k \in 1..MaxNumPoints, r \in RemoteKeyPointReplies :
          ExtractKeyPointsRemote(t, k, r)
    \/ \E t \in QuizTexts, n \in 1..MaxNumQuestions : GenerateQuiz(t, n)
    \/ \E t \in QuizTexts, n \in 1..MaxNumQuestions, r \in RemoteQuizReplies :
          GenerateQuizRemote(t, n, r)
    \/ Return
    \/ SkipSentence
    \/ SkipUsedAnswer
    \/ PickAnswer
    \/ OptTest
    \/ \E d \in DistractorWords : DrawDistractor(d)
    \/ PadOptions
    \/ EmitQuestion

Spec == Init /\ [][Next]_vars

\* The steps of a call in progress: the interpreter runs them one after another.
Step ==
    \/ Return
    \/ SkipSentence
    \/ SkipUsedAnswer
    \/ PickAnswer
    \/ OptTest
    \/ \E d \in DistractorWords : DrawDistractor(d)
    \/ PadOptions
    \/ EmitQuestion

\* A draw that lengthens the option list.
DrawNewDistractor == \E d \in DistractorWords : DrawDistractor(d) /\ options' # options

\* A call in progress keeps running, and random.choice is fair: when a word
\* not yet among the options can be drawn again and again, one is drawn.
FairSpec == Spec /\ WF_vars(Step) /\ SF_vars(DrawNewDistractor)

(***************************************************************************)
(* Two runs of extract_key_points on one input.  What a run of the local   *)
(* path does not fix by its arguments is the order in which Python walks   *)
(* the set important_keywords (line 154), which varies with the hash seed  *)
(* of the process: each run takes an order of its own.                     *)
(***************************************************************************)

\* The longest text given to the two runs, in pieces.
MaxDetSentences == 3

DetTexts == TextsUpTo(RankPieces, MaxDetSentences)

\* Iteration orders of the set important_keywords.
KeywordOrders ==
    {<<"important", "key", "theory", "principle", "therefore", "result">>,
     <<"result", "therefore", "principle", "theory", "key", "important">>,
     <<"theory", "important", "result", "key", "therefore", "principle">>}

RECURSIVE SumInOrder(_, _, _)
\* The generator sum of line 154 over the first n keywords of `order`.
SumInOrder(low, order, n) ==
    IF n = 0 THEN 0
    ELSE SumInOrder(low, order, n - 1) + (IF Contains(low, order[n]) THEN KeywordScore ELSE 0)

\* A variant that scores the first keyword found by its place in the order.
KeywordBonusFirstFound(sentence, order) ==
    Let(Lower(sentence),
        LAMBDA low :
            LET found == {i \in DOMAIN order : Contains(low, order[i])}
            IN  IF found = {} THEN 0 ELSE KeywordScore * Min(found))

\* sum(8 for k in important_keywords if k in sentence.lower()), the set walked
\* in the given order.
KeywordBonusInOrder(sentence, order) ==
    Let(Lower(sentence), LAMBDA low : SumInOrder(low, order, Len(order)))

\* The list `scored` of a run that walks the keywords in the given order.
ScoredInOrder(sents, order) ==
    [i \in 1..Len(sents) |->
        [score |-> BaseScore(sents[i]) + KeywordBonusInOrder(sents[i], order)
                      + PositionScore(i - 1),
         sentence |-> sents[i], idx |-> i - 1]]

\* What the local path of extract_key_points returns in such a run.
ExtractKeyPointsInOrder(txt, num_points, order) ==
    LET sents == Sentences(txt)
    IN  IF sents = <<>> THEN NoKeyPoints
        ELSE IF Len(sents) <= num_points
        THEN [i \in 1..Len(sents) |-> Normalize(sents[i])]
        ELSE LET tp == Top(ScoredInOrder(sents, order), num_points)
             IN  [i \in 1..Len(tp) |-> Normalize(Strip(tp[i].sentence))]

\* The first run.
FirstRun(t, k, order) ==
    /\ det_pc = "idle"
    /\ ~openai_client
    /\ det_text' = t
    /\ det_num' = k
    /\ det_order' = order
    /\ det_first' = ExtractKeyPointsInOrder(t, k, order)
    /\ det_pc' = "first"
    /\ UNCHANGED <<beyondDet, det_second>>

\* The second run, on the same arguments, in another process or not.
SecondRun(order) ==
    /\ det_pc = "first"
    /\ det_second' = ExtractKeyPointsInOrder(det_text, det_num, order)
    /\ det_order' = <<det_order, order>>
    /\ det_pc' = "both"
    /\ UNCHANGED <<beyondDet, det_text, det_num, det_first>>

DetNext ==
    \/ \E t \in DetTexts, k \in 1..MaxNumPoints, o \in KeywordOrders : FirstRun(t, k, o)
    \/ \E o \in KeywordOrders : SecondRun(o)

DetSpec == Init /\ [][DetNext]_vars

(***************************************************************************)
(* Calls of extract_key_points and generate_quiz running side by side in   *)
(* workers of the thread pool.  Every name the two functions assign is a   *)
(* local of the call; the set of line 197 is an object the call makes.     *)
(* The interpreter may switch workers between any two statements.          *)
(***************************************************************************)

\* The largest num_points and num_questions of these calls.
MaxConcNum == 2

PaddedText == "Energy is in a cell and it is in a plant."

FourOptionText ==
    "matter and energy are in a cell of a plant? Therefore this theory is in a cell!"

RepeatedText ==
    "Energy is in a cell and it is in a plant. Energy is in a cell and it is in a plant."

\* The texts given to call t.
ConcTexts(t) ==
    IF t = 1 THEN {PaddedText, RepeatedText, FourOptionText, "This is short."}
    ELSE {PaddedText, RepeatedText}

\* A variant in which every call gets the same set object, as a set made at
\* module level would be.
NewSetShared(t) == 1

\* used_answers = set(): the object made by call t, one of its own.
NewSet(t) == t

\* extract_key_points(txt, k) in worker t, local path.
CallExtractKeyPoints(t, txt, k) ==
    /\ frame[t].pc = "idle"
    /\ ~openai_client
    /\ frame' = [frame EXCEPT ![t] =
                    [@ EXCEPT !.fn = "extract_key_points", !.text = txt, !.num = k,
                              !.result = ExtractKeyPointsLocal(txt, k).result,
                              !.pc = "done"]]
    /\ UNCHANGED <<beyondConc, sets>>

\* generate_quiz(txt, n) in worker t, local path, lines 195-211.
CallGenerateQuiz(t, txt, n) ==
    /\ frame[t].pc = "idle"
    /\ ~openai_client
    /\ \E cands \in {ExtractKeyPointsLocal(txt, n * Oversample).result} :
          frame' = [frame EXCEPT ![t] =
                       [@ EXCEPT !.fn = "generate_quiz", !.text = txt, !.num = n,
                                 !.candidate_sentences = cands,
                                 !.all_potential_distractors = DistractorPool(cands),
                                 !.quiz_questions = <<>>,
                                 !.used_answers = NewSet(t),
                                 !.si = 1,
                                 !.pc = "for"]]
    /\ sets' = [sets EXCEPT ![NewSet(t)] = {}]
    /\ UNCHANGED beyondConc

\* The for loop of line 213 of the call with locals f goes on.
InLoopOf(f) == f.si <= Len(f.candidate_sentences) /\ Len(f.quiz_questions) < f.num

\* return quiz_questions (line 262).
ReturnIn(t) ==
    /\ frame[t].pc = "for"
    /\ ~InLoopOf(frame[t])
    /\ frame' = [frame EXCEPT ![t] = [@ EXCEPT !.result = frame[t].quiz_questions, !.pc = "done"]]
    /\ UNCHANGED <<beyondConc, sets>>

\* `continue` of line 217 or 223.
SkipSentenceIn(t) ==
    /\ frame[t].pc = "for"
    /\ InLoopOf(frame[t])
    /\ \E ws \in {Words(frame[t].candidate_sentences[frame[t].si])} :
          TooShort(ws) \/ BlankCandidates(ws) = <<>>
    /\ frame' = [frame EXCEPT ![t] = [@ EXCEPT !.si = @ + 1]]
    /\ UNCHANGED <<beyondConc, sets>>

\* `continue` of line 228: the word drawn is in the set of the call.
SkipUsedAnswerIn(t) ==
    /\ frame[t].pc = "for"
    /\ InLoopOf(frame[t])
    /\ \E ws \in {Words(frame[t].candidate_sentences[frame[t].si])} :
          /\ ~TooShort(ws)
          /\ \E c \in Range(BlankCandidates(ws)) : IsUsed(c.w, sets[frame[t].used_answers])
    /\ frame' = [frame EXCEPT ![t] = [@ EXCEPT !.si = @ + 1]]
    /\ UNCHANGED <<beyondConc, sets>>

\* Lines 226-240 with a fresh word drawn.
PickAnswerIn(t) ==
    /\ frame[t].pc = "for"
    /\ InLoopOf(frame[t])
    /\ \E ws \in {Words(frame[t].candidate_sentences[frame[t].si])} :
          /\ ~TooShort(ws)
          /\ \E c \in Range(BlankCandidates(ws)) :
                /\ ~IsUsed(c.w, sets[frame[t].used_answers])
                /\ sets' = [sets EXCEPT ![frame[t].used_answers] = @ \cup {Lower(c.w)}]
                /\ frame' = [frame EXCEPT ![t] =
                                [@ EXCEPT !.answer = c.w,
                                          !.question_text = QuestionText(ws, c.i),
                                          !.options = InitialOptions(c.w),
                                          !.current_distractors =
                                              CurrentDistractors(frame[t].all_potential_distractors, c.w),
                                          !.pc = "opt_test"]]
    /\ UNCHANGED beyondConc

\* while len(options) < 4 (line 243).
OptTestIn(t) ==
    /\ frame[t].pc = "opt_test"
    /\ frame' = [frame EXCEPT ![t] =
                    [@ EXCEPT !.pc = IF Len(frame[t].options) < NumOptions
                                     THEN "opt_body" ELSE "shuffle"]]
    /\ UNCHANGED <<beyondConc, sets>>

\* Lines 244-247.
DrawDistractorIn(t, d) ==
    /\ frame[t].pc = "opt_body"
    /\ d \in Range(frame[t].current_distractors)
    /\ frame' = [frame EXCEPT ![t] =
                    [@ EXCEPT !.options = AddDistractor(@, d), !.pc = "opt_test"]]
    /\ UNCHANGED <<beyondConc, sets>>

\* Lines 248-251.
PadOptionsIn(t) ==
    /\ frame[t].pc = "opt_body"
    /\ frame[t].current_distractors = <<>>
    /\ frame' = [frame EXCEPT ![t] =
                    [@ EXCEPT !.options = @ \o Padding(frame[t].answer), !.pc = "shuffle"]]
    /\ UNCHANGED <<beyondConc, sets>>

\* Lines 254-260.
EmitQuestionIn(t) ==
    /\ frame[t].pc = "shuffle"
    /\ \E shuffled \in Shuffles(frame[t].options) :
          frame' = [frame EXCEPT ![t] =
                       [@ EXCEPT !.options = shuffled,
                                 !.quiz_questions =
                                     Append(@, QuizQuestion(frame[t].question_text, shuffled,
                                                            frame[t].answer)),
                                 !.si = @ + 1,
                                 !.pc = "for"]]
    /\ UNCHANGED <<beyondConc, sets>>

ConcNext ==
    \/ \E t \in Calls, k \in 1..MaxConcNum : \E txt \in ConcTexts(t) :
          CallExtractKeyPoints(t, txt, k)
    \/ \E t \in Calls, n \in 1..MaxConcNum : \E txt \in ConcTexts(t) :
          CallGenerateQuiz(t, txt, n)
    \/ \E t \in Calls : ReturnIn(t)
    \/ \E t \in Calls : SkipSentenceIn(t)
    \/ \E t \in Calls : SkipUsedAnswerIn(t)
    \/ \E t \in Calls : PickAnswerIn(t)
    \/ \E t \in Calls : OptTestIn(t)
    \/ \E t \in Calls, d \in DistractorWords : DrawDistractorIn(t, d)
    \/ \E t \in Calls : PadOptionsIn(t)
    \/ \E t \in Calls : EmitQuestionIn(t)

ConcSpec == Init /\ [][ConcNext]_vars

(***************************************************************************)
(* upload_lecture (main.py lines 100-220).  The handler is a coroutine:    *)
(* it runs alone from one `await` to the next, so each action is the code  *)
(* between two awaits, its except branch included.  The file of request r  *)
(* is lecture_<timestamp><ext>; requests get different timestamps.  What   *)
(* the collaborators return (transcription, the database) is drawn from    *)
(* their possible outcomes.                                                *)
(***************************************************************************)

\* len(transcript) < 10
MinTranscriptLen == 10

\* What transcribe_audio can return: nothing, 9, 10 and 25 characters.
Transcripts == {"", "So short.", "Too short.", "A transcript long enough."}

\* A variant that rejects the empty transcript only.
TranscriptRejectedIfEmpty(tr) == tr = ""

\* if not transcript or len(transcript) < 10
TranscriptRejected(tr) == tr = "" \/ Len(tr) < MinTranscriptLen

\* The request r ends with the response `code`, for the reason `why`.
Respond(r, code, why) ==
    req' = [req EXCEPT ![r] = [@ EXCEPT !.pc = "done", !.status = code, !.failure = why]]

\* The request r goes on to `next`, the stage `stage` done.
Proceed(r, stage, next) ==
    req' = [req EXCEPT ![r] = [@ EXCEPT !.pc = next, !.stages = Append(@, stage)]]

\* if os.path.exists(file_path): os.remove(file_path)
RemoveFile(r) == disk' = disk \ {r}

\* Lines 126-134: the extension is not an allowed one.
RejectFileType(r) ==
    /\ req[r].pc = "start"
    /\ Respond(r, 400, "file_type")
    /\ UNCHANGED <<beyondUp, disk, db>>

\* Lines 144-145 raise (the disk is full, say): the except branch of lines
\* 205-214 removes what was written and answers 500.
SaveRaises(r) ==
    /\ req[r].pc = "start"
    /\ RemoveFile(r)
    /\ Respond(r, 500, "save_raised")
    /\ UNCHANGED <<beyondUp, db>>

\* Lines 144-154: the file is saved, found too large, removed, and the
\* HTTPException is passed on by lines 203-204.
RejectTooLarge(r) ==
    /\ req[r].pc = "start"
    /\ RemoveFile(r)
    /\ req' = [req EXCEPT ![r] =
                  [@ EXCEPT !.pc = "done", !.status = 400, !.failure = "too_large",
                            !.saved = TRUE]]
    /\ UNCHANGED <<beyondUp, db>>

\* Lines 136-160: the file is saved and transcription is awaited.
SaveFile(r) ==
    /\ req[r].pc = "start"
    /\ disk' = disk \cup {r}
    /\ req' = [req EXCEPT ![r] = [@ EXCEPT !.pc = "transcribe", !.saved = TRUE]]
    /\ UNCHANGED <<beyondUp, db>>

\* transcribe_audio raises: lines 205-214.
TranscribeRaises(r) ==
    /\ req[r].pc = "transcribe"
    /\ RemoveFile(r)
    /\ Respond(r, 500, "transcribe_raised")
    /\ UNCHANGED <<beyondUp, db>>

\* transcribe_audio returns a transcript that line 162 rejects: the
\* HTTPException of lines 163-166 is passed on by lines 203-204.
TranscriptTooShort(r, tr) ==
    /\ req[r].pc = "transcribe"
    /\ TranscriptRejected(tr)
    /\ req' = [req EXCEPT ![r] =
                  [@ EXCEPT !.pc = "done", !.status = 400, !.failure = "short",
                            !.transcript = tr, !.stages = Append(@, "transcribe")]]
    /\ UNCHANGED <<beyondUp, disk, db>>

\* transcribe_audio returns a transcript that line 162 accepts; the summary
\* is awaited (lines 168-170).
Transcribed(r, tr) ==
    /\ req[r].pc = "transcribe"
    /\ ~TranscriptRejected(tr)
    /\ req' = [req EXCEPT ![r] =
                  [@ EXCEPT !.pc = "summarize", !.transcript = tr,
                            !.stages = Append(@, "transcribe")]]
    /\ UNCHANGED <<beyondUp, disk, db>>

\* summarize_text returns; the key points are awaited (lines 172-174).
Summarized(r) ==
    /\ req[r].pc = "summarize"
    /\ Proceed(r, "summarize", "key_points")
    /\ UNCHANGED <<beyondUp, disk, db>>

\* extract_key_points returns; the quiz is awaited (lines 176-178).
KeyPointsExtracted(r) ==
    /\ req[r].pc = "key_points"
    /\ Proceed(r, "key_points", "quiz")
    /\ UNCHANGED <<beyondUp, disk, db>>

\* generate_quiz returns; the record is built and create_lecture is awaited
\* (lines 180-191).
QuizGenerated(r) ==
    /\ req[r].pc = "quiz"
    /\ Proceed(r, "quiz", "persist")
    /\ UNCHANGED <<beyondUp, disk, db>>

\* create_lecture raises: lines 205-214.
PersistRaises(r) ==
    /\ req[r].pc = "persist"
    /\ RemoveFile(r)
    /\ Respond(r, 500, "persist_raised")
    /\ UNCHANGED <<beyondUp, db>>

\* create_lecture inserts the record and returns its id.
Persisted(r) ==
    /\ req[r].pc = "persist"
    /\ db' = Append(db, [owner |-> r, transcript |-> req[r].transcript])
    /\ Proceed(r, "persist", "respond")
    /\ UNCHANGED <<beyondUp, disk>>

\* Lines 193-201 raise (the response model rejects the data): lines 205-214.
ResponseRaises(r) ==
    /\ req[r].pc = "respond"
    /\ RemoveFile(r)
    /\ Respond(r, 500, "response_raised")
    /\ UNCHANGED <<beyondUp, db>>

\* return LectureResponse(**response_data) (line 201).
ReturnLecture(r) ==
    /\ req[r].pc = "respond"
    /\ Respond(r, 200, "none")
    /\ UNCHANGED <<beyondUp, disk, db>>

UploadNext ==
    \/ \E r \in Requests : RejectFileType(r)
    \/ \E r \in Requests : SaveRaises(r)
    \/ \E r \in Requests : RejectTooLarge(r)
    \/ \E r \in Requests : SaveFile(r)
    \/ \E r \in Requests : TranscribeRaises(r)
    \/ \E r \in Requests, tr \in Transcripts : TranscriptTooShort(r, tr)
    \/ \E r \in Requests, tr \in Transcripts : Transcribed(r, tr)
    \/ \E r \in Requests : Summarized(r)
    \/ \E r \in Requests : KeyPointsExtracted(r)
    \/ \E r \in Requests : QuizGenerated(r)
    \/ \E r \in Requests : PersistRaises(r)
    \/ \E r \in Requests : Persisted(r)
    \/ \E r \in Requests : ResponseRaises(r)
    \/ \E r \in Requests : ReturnLecture(r)

UploadSpec == Init /\ [][UploadNext]_vars

(***************************************************************************)
(* The lazily loaded models: load_whisper_model (asr.py lines 14-41) and   *)
(* load_summarization_model (nlp.py lines 26-51).  Both test a module      *)
(* global for None, construct the model, assign the global and return the  *)
(* global; neither takes a lock.  transcribe_audio and summarize_text call *)
(* them from thread-pool workers (main.py lines 160 and 170), and the      *)
(* interpreter may switch workers between the test, the constructor call,  *)
(* the assignment and the return.  An instance is named by the number of   *)
(* the constructor run that made it.                                       *)
(***************************************************************************)

\* startup_event (main.py lines 55-67) preloads the models in turn; a loader
\* that raises ends the preloading, and the models not loaded are left for
\* the first request.  n is the number of loaders that succeeded.
Startup(n) ==
    /\ ~started
    /\ started' = TRUE
    /\ loaded' = [l \in Loaders |-> IF \E i \in 1..n : LoaderOrder[i] = l THEN 1 ELSE 0]
    /\ built' = loaded'
    /\ UNCHANGED <<beyondLoad, wk>>

\* A worker enters the loader l (asr.py line 63, nlp.py line 81).
CallLoader(w, l) ==
    /\ started
    /\ wk[w].pc = "idle"
    /\ wk' = [wk EXCEPT ![w] = [@ EXCEPT !.pc = "test", !.loader = l]]
    /\ UNCHANGED <<beyondLoad, started, loaded, built>>

\* if _whisper_model is None / if _summarizer is None
TestLoaded(w) ==
    /\ wk[w].pc = "test"
    /\ wk' = [wk EXCEPT ![w] =
                 [@ EXCEPT !.pc = IF loaded[wk[w].loader] = 0 THEN "build" ELSE "return"]]
    /\ UNCHANGED <<beyondLoad, started, loaded, built>>

\* The constructor call: WhisperModel(...) / from_pretrained and pipeline(...).
BuildModel(w) ==
    /\ wk[w].pc = "build"
    /\ built' = [built EXCEPT ![wk[w].loader] = @ + 1]
    /\ wk' = [wk EXCEPT ![w] = [@ EXCEPT !.pc = "store", !.made = built[wk[w].loader] + 1]]
    /\ UNCHANGED <<beyondLoad, started, loaded>>

\* The assignment to the global.
StoreModel(w) ==
    /\ wk[w].pc = "store"
    /\ loaded' = [loaded EXCEPT ![wk[w].loader] = wk[w].made]
    /\ wk' = [wk EXCEPT ![w] = [@ EXCEPT !.pc = "return"]]
    /\ UNCHANGED <<beyondLoad, started, built>>

\* return _whisper_model / return _summarizer: the global as it is now.
ReturnModel(w) ==
    /\ wk[w].pc = "return"
    /\ wk' = [wk EXCEPT ![w] = [@ EXCEPT !.pc = "done", !.got = loaded[wk[w].loader]]]
    /\ UNCHANGED <<beyondLoad, started, loaded, built>>

LoadNext ==
    \/ \E n \in 0..Len(LoaderOrder) : Startup(n)
    \/ \E w \in Workers, l \in Loaders : CallLoader(w, l)
    \/ \E w \in Workers : TestLoaded(w)
    \/ \E w \in Workers : BuildModel(w)
    \/ \E w \in Workers : StoreModel(w)
    \/ \E w \in Workers : ReturnModel(w)

LoadSpec == Init /\ [][LoadNext]_vars

(***************************************************************************)
(* The routes of the application (main.py lines 77-332).  Each decorator   *)
(* @app.get / @app.post / @app.delete appends a route to the router, so    *)
(* the router holds them in the order of the source.  For a request the    *)
(* router takes the first route whose path pattern and method both match;  *)
(* failing that, the first route whose path alone matches answers 405;     *)
(* failing that, a path that matches once its trailing slash is toggled is *)
(* redirected, and anything else is answered 404.  A path parameter such   *)
(* as {lecture_id} matches one non-empty segment without "/".  One request *)
(* is followed from its arrival to its reply; the lecture collection is    *)
(* filled by upload_lecture and emptied by delete_lecture.                 *)
(***************************************************************************)

\* The documents insert_one may store while a run lasts.
MaxLectures == 2

\* The _id values the database gives the documents, in order of insertion:
\* str(result.inserted_id) is 24 lower-case hexadecimal digits.
NewObjectIds == <<"65a1b2c3d4e5f60718293a01", "65a1b2c3d4e5f60718293a02">>

\* int(time.time() * 1000) of the uploads, in order.
Timestamps == <<"1700000000001", "1700000000002">>

\* The title form field of an upload ("" when it is left out).
Titles == {"", "Cell biology"}

\* The transcripts of the uploads that reach create_lecture.
UploadedTranscripts == {"Plants have cell walls.", "Matrices multiply by rows."}

Methods == {"GET", "POST", "DELETE"}

\* The query parameter q of a request.  The queries hold letters only, so as
\* regular expressions they match what contains them.
Queries == {"", "c", "CELL", "rows"}

Paths ==
    {"/health", "/api/models/info", "/api/lectures/upload", "/api/lectures",
     "/api/lectures/", "/api/lectures/search", "/api/unknown"}
    \cup {"/api/lectures/" \o NewObjectIds[i] : i \in DOMAIN NewObjectIds}

\* The routes in the order their decorators run.
Routes ==
    <<[methods |-> {"GET"}, path |-> "/health", endpoint |-> "health_check"],
      [methods |-> {"GET"}, path |-> "/api/models/info",
       endpoint |-> "get_model_info"],
      [methods |-> {"POST"}, path |-> "/api/lectures/upload",
       endpoint |-> "upload_lecture"],
      [methods |-> {"GET"}, path |-> "/api/lectures/{lecture_id}",
       endpoint |-> "get_lecture"],
      [methods |-> {"GET"}, path |-> "/api/lectures",
       endpoint |-> "get_all_lectures"],
      [methods |-> {"GET"}, path |-> "/api/lectures/search",
       endpoint |-> "search_lectures"],
      [methods |-> {"DELETE"}, path |-> "/api/lectures/{lecture_id}",
       endpoint |-> "delete_lecture"]>>

\* The segments of a path: what stands before, between and after its "/".
PathSegments(p) ==
    Let(Ascending({i \in 1..Len(p) : At(p, i) = "/"}),
        LAMBDA cut :
            [k \in 1..(Len(cut) + 1) |->
                LET from == IF k = 1 THEN 1 ELSE cut[k - 1] + 1
                    to == IF k > Len(cut) THEN Len(p) ELSE cut[k] - 1
                IN  IF to < from THEN "" ELSE SubSeq(p, from, to)])

\* A segment of a pattern that is a path parameter, as {lecture_id}.
IsParam(seg) == Len(seg) >= 2 /\ At(seg, 1) = "{" /\ At(seg, Len(seg)) = "}"

\* Whether the whole path matches the pattern of a route.
PathMatches(pattern, path) ==
    LET a == PathSegments(pattern)
        b == PathSegments(path)
    IN  /\ Len(a) = Len(b)
        /\ \A k \in DOMAIN a : IF IsParam(a[k]) THEN b[k] # "" ELSE a[k] = b[k]

\* The value the path gives the parameter of the pattern ("" without one).
PathParam(pattern, path) ==
    LET a == PathSegments(pattern)
        b == PathSegments(path)
        at == {k \in DOMAIN a : IsParam(a[k])}
    IN  IF at = {} THEN "" ELSE b[Min(at)]

\* How a route matches a request: "FULL", "PARTIAL" (the path alone) or "NONE".
Match(route, method, path) ==
    IF ~PathMatches(route.path, path) THEN "NONE"
    ELSE IF method \in route.methods THEN "FULL"
    ELSE "PARTIAL"

\* The position of the first route that matches in the given way (0: none).
FirstMatch(kind, method, path) ==
    LET hits == {i \in DOMAIN Routes : Match(Routes[i], method, path) = kind}
    IN  IF hits = {} THEN 0 ELSE Min(hits)

\* The path with its trailing slash taken away, or added.
ToggleSlash(path) ==
    IF At(path, Len(path)) = "/" THEN SubSeq(path, 1, Len(path) - 1)
    ELSE path \o "/"

\* The endpoint the router calls for a request, with its path parameter.
Dispatch(method, path) ==
    LET full == FirstMatch("FULL", method, path)
        partial == FirstMatch("PARTIAL", method, path)
    IN  IF full # 0
        THEN [endpoint |-> Routes[full].endpoint,
              lecture_id |-> PathParam(Routes[full].path, path)]
        ELSE IF partial # 0
        THEN [endpoint |-> "method_not_allowed", lecture_id |-> ""]
        ELSE IF \E i \in DOMAIN Routes :
                    Match(Routes[i], method, ToggleSlash(path)) # "NONE"
        THEN [endpoint |-> "redirect_slashes", lecture_id |-> ""]
        ELSE [endpoint |-> "not_found", lecture_id |-> ""]

\* What an endpoint leaves behind: its reply and the collection after it.
Outcome(status, detail, lecture, items, store) ==
    [status |-> status, detail |-> detail, lecture |-> lecture, items |-> items,
     lectures |-> store]

HexDigits ==
    {"0", "1", "2", "3", "4", "5", "6", "7", "8", "9",
     "a", "b", "c", "d", "e", "f", "A", "B", "C", "D", "E", "F"}

\* Whether ObjectId(s) returns: s is 24 hexadecimal digits.  Otherwise it
\* raises InvalidId.
IsObjectId(s) == Len(s) = 24 /\ \A i \in 1..Len(s) : At(s, i) \in HexDigits

\* collection.find_one({"_id": ObjectId(lecture_id)}): the documents with that
\* id (at most one).
FindOne(lecture_id, store) == {d \in store : d.id = Lower(lecture_id)}

\* get_lecture_by_id: the document, or None (here {}) when there is none or
\* when ObjectId raised.
GetLectureById(lecture_id, store) ==
    IF IsObjectId(lecture_id) THEN FindOne(lecture_id, store) ELSE {}

\* get_lecture
GetLecture(lecture_id, store) ==
    LET lecture == GetLectureById(lecture_id, store)
    IN  IF lecture = {} THEN Outcome(404, "Lecture not found", {}, <<>>, store)
        ELSE Outcome(200, "", lecture, <<>>, store)

\* skip: int = 0
DefaultSkip == 0

\* limit: int = 20
DefaultLimit == 20

RECURSIVE NewestFirst(_)
\* .sort("created_at", -1)
NewestFirst(S) ==
    IF S = {} THEN <<>>
    ELSE LET d == CHOOSE d \in S : \A e \in S : e.created_at <= d.created_at
         IN  <<d>> \o NewestFirst(S \ {d})

\* .skip(skip).limit(limit)
Page(seq, skip, limit) == Take(SubSeq(seq, skip + 1, Len(seq)), limit)

\* The LectureListItem of a document (the summary of a document is left
\* out of the documents here, and its preview with it).
ListItem(d) == [id |-> d.id, title |-> d.title, created_at |-> d.created_at]

ListItems(seq) == [i \in DOMAIN seq |-> ListItem(seq[i])]

\* get_all_lectures, with the default skip and limit.
GetAllLectures(store) ==
    Outcome(200, "", {},
            ListItems(Page(NewestFirst(store), DefaultSkip, DefaultLimit)), store)

\* {"$regex": query, "$options": "i"} for a query of letters.
RegexMatches(query, s) == Contains(Lower(s), Lower(query))

\* if not q or len(q) < 2
MinQueryLen == 2

\* search_lectures of the repository: the documents whose title or transcript
\* matches, newest first.
SearchLecturesByQuery(query, store, skip, limit) ==
    Page(NewestFirst({d \in store : \/ RegexMatches(query, d.title)
                                    \/ RegexMatches(query, d.transcript)}),
         skip, limit)

\* search_lectures
SearchLectures(q, store) ==
    IF q = "" \/ Len(q) < MinQueryLen THEN Outcome(200, "", {}, <<>>, store)
    ELSE Outcome(200, "", {},
                 ListItems(SearchLecturesByQuery(q, store, DefaultSkip,
                                                 DefaultLimit)),
                 store)

\* delete_lecture: delete_one removes the document with that id, if any.
DeleteLecture(lecture_id, store) ==
    LET found == GetLectureById(lecture_id, store)
    IN  IF found = {} THEN Outcome(404, "Lecture not found", {}, <<>>, store)
        ELSE Outcome(200, "Lecture deleted successfully", {}, <<>>,
                     store \ found)

\* title or f"Lecture {timestamp}"
TitleOf(title, n) == IF title = "" THEN "Lecture " \o Timestamps[n] ELSE title

\* The document create_lecture stores for the n-th insertion.
NewLecture(title, transcript, n) ==
    [id |-> NewObjectIds[n], title |-> TitleOf(title, n),
     transcript |-> transcript, created_at |-> n]

\* upload_lecture, by its outcomes: it raises 400 or 500 before create_lecture
\* and stores nothing, or it stores a document and then answers 200 with the
\* document, or 500 when building the response raises.
UploadLecture(store, n) ==
    {Outcome(code, "", {}, <<>>, store) : code \in {400, 500}}
    \cup {Outcome(200, "", {NewLecture(t, s, n + 1)}, <<>>,
                  store \cup {NewLecture(t, s, n + 1)}) :
              t \in Titles, s \in UploadedTranscripts}
    \cup {Outcome(500, "", {}, <<>>, store \cup {NewLecture(t, s, n + 1)}) :
              t \in Titles, s \in UploadedTranscripts}

\* What calling the endpoint of the routed request can leave behind.
EndpointOutcomes(r, store, n) ==
    CASE r.endpoint = "health_check" -> {Outcome(200, "healthy", {}, <<>>, store)}
      [] r.endpoint = "get_model_info" -> {Outcome(200, "", {}, <<>>, store)}
      [] r.endpoint = "upload_lecture" -> UploadLecture(store, n)
      [] r.endpoint = "get_lecture" -> {GetLecture(r.lecture_id, store)}
      [] r.endpoint = "get_all_lectures" -> {GetAllLectures(store)}
      [] r.endpoint = "search_lectures" -> {SearchLectures(r.q, store)}
      [] r.endpoint = "delete_lecture" -> {DeleteLecture(r.lecture_id, store)}
      [] r.endpoint = "method_not_allowed" ->
            {Outcome(405, "Method Not Allowed", {}, <<>>, store)}
      [] r.endpoint = "redirect_slashes" -> {Outcome(307, "", {}, <<>>, store)}
      [] OTHER -> {Outcome(404, "Not Found", {}, <<>>, store)}

\* A client sends a request, once the one before it was answered.  An upload
\* is sent only while the collection may still grow.
SendRequest(m, p, q) ==
    /\ http.pc \in {"idle", "done"}
    /\ (m = "POST" /\ p = "/api/lectures/upload") => inserted < MaxLectures
    /\ http' = [NoRequest EXCEPT !.pc = "sent", !.method = m, !.path = p, !.q = q]
    /\ UNCHANGED <<beyondRoute, lectures, inserted>>

\* The router chooses the endpoint of the request.
RouteRequest ==
    /\ http.pc = "sent"
    /\ \E to \in {Dispatch(http.method, http.path)} :
          http' = [http EXCEPT !.pc = "routed", !.endpoint = to.endpoint,
                               !.lecture_id = to.lecture_id]
    /\ UNCHANGED <<beyondRoute, lectures, inserted>>

\* The endpoint runs and the reply is sent.
CallEndpoint ==
    /\ http.pc = "routed"
    /\ \E out \in EndpointOutcomes(http, lectures, inserted) :
          /\ http' = [http EXCEPT !.pc = "done", !.status = out.status,
                                  !.detail = out.detail, !.lecture = out.lecture,
                                  !.items = out.items]
          /\ lectures' = out.lectures
          /\ inserted' = inserted + Cardinality(out.lectures \ lectures)
    /\ UNCHANGED beyondRoute

RouteNext ==
    \/ \E m \in Methods, p \in Paths, q \in Queries : SendRequest(m, p, q)
    \/ RouteRequest
    \/ CallEndpoint

RouteSpec == Init /\ [][RouteNext]_vars

(***************************************************************************)
(* The properties.                                                         *)
(***************************************************************************)

\* generate_quiz has returned on the local path.
QuizReturnedLocal == pc = "done" /\ fn = "generate_quiz" /\ outcome = "local"

\* generate_quiz has returned the value of its except branch.
QuizReturnedExcept == pc = "done" /\ fn = "generate_quiz" /\ outcome = "except"

\* extract_key_points has returned on the local path.
KeyPointsReturnedLocal == pc = "done" /\ fn = "extract_key_points" /\ outcome = "local"

\* No fragment of txt between runs of terminators is longer than 20 once trimmed.
NoLongFragment(txt) == \A f \in Range(ReSplit(txt)) : Len(Strip(f)) <= 20

\* C1: every question generate_quiz returns on the local path, and the
\* placeholder question, has exactly 4 options.
C1_ExactlyFourOptions ==
    (QuizReturnedLocal \/ QuizReturnedExcept)
        => \A i \in DOMAIN quiz : Len(quiz[i].options) = 4

\* C2: every call of generate_quiz on the local path returns in the end.
C2_QuizReturns == (fn = "generate_quiz" /\ pc = "for") ~> (pc = "done")

\* C3: the options of every question returned on the local path are pairwise
\* distinct when compared case-insensitively.
C3_OptionsDistinctIgnoringCase ==
    QuizReturnedLocal
        => \A q \in DOMAIN quiz : \A i, j \in DOMAIN quiz[q].options :
              i # j => Lower(quiz[q].options[i]) # Lower(quiz[q].options[j])

\* C4: the correct answer is one of the options, character for character,
\* while the options are built (before the shuffle) and in every question
\* appended or returned (after it), the placeholder included.
C4_AnswerAmongOptions ==
    /\ pc \in {"opt_test", "opt_body", "shuffle"} => answer \in Range(options)
    /\ \A i \in DOMAIN quiz_questions :
          quiz_questions[i].correct_answer \in Range(quiz_questions[i].options)
    /\ (QuizReturnedLocal \/ QuizReturnedExcept)
          => \A i \in DOMAIN quiz : quiz[i].correct_answer \in Range(quiz[i].options)

\* A returned question whose shuffle moved the answer away from the front.
C4_Witness ==
    /\ QuizReturnedLocal
    /\ Len(quiz) >= 1
    /\ Len(quiz[1].options) = 4
    /\ quiz[1].options[1] # quiz[1].correct_answer

\* The smaller of two numbers.
Smaller(a, b) == IF a < b THEN a ELSE b

\* s is a fragment of txt between terminators, trimmed and longer than 20.
Qualifies(s, txt) ==
    /\ Len(s) > 20
    /\ Strip(s) = s
    /\ \A i \in 1..Len(s) : At(s, i) \notin Terminators
    /\ \E i \in 1..(Len(txt) - Len(s) + 1) :
          /\ SubSeq(txt, i, i + Len(s) - 1) = s
          /\ \A j \in 1..(i - 1) :
                (\A m \in j..(i - 1) : At(txt, m) \notin Terminators) => At(txt, j) \in Whitespace
          /\ \A j \in (i + Len(s))..Len(txt) :
                (\A m \in (i + Len(s))..j : At(txt, m) \notin Terminators)
                    => At(txt, j) \in Whitespace

\* C5: with n >= 1 qualifying sentences and num_points = k, extract_key_points
\* returns min(k, n) strings on the local path, each a qualifying sentence
\* followed by a full stop, at strictly ascending positions of the text.
C5_KeyPointsCountAndOrder ==
    (KeyPointsReturnedLocal /\ Len(sentences) >= 1)
        => /\ \A i \in DOMAIN sentences : Qualifies(sentences[i], text)
           /\ Len(key_points) = Smaller(num, Len(sentences))
           /\ \E at \in [DOMAIN key_points -> DOMAIN sentences] :
                 /\ \A i, j \in DOMAIN key_points : i < j => at[i] < at[j]
                 /\ \A i \in DOMAIN key_points : key_points[i] = sentences[at[i]] \o "."

\* Two of four qualifying sentences were asked for, and the first was not chosen.
C5_Witness ==
    /\ KeyPointsReturnedLocal
    /\ Len(sentences) = 4
    /\ num = 2
    /\ Len(key_points) = 2
    /\ key_points[1] # sentences[1] \o "."

\* The 0-based positions extract_key_points selected.
Selected == {top[i].idx : i \in DOMAIN top}

\* Entry a of scored comes before entry b in the order by score descending,
\* position ascending.
RanksBefore(a, b) == a.score > b.score \/ (a.score = b.score /\ a.idx < b.idx)

MitochondriaText ==
    "The mitochondria is the powerhouse of the cell. Therefore this principle is important for biology students everywhere."

\* C6: when more than num_points sentences qualify, the selected sentences are
\* the first num_points in the order by score descending, position ascending;
\* the mitochondria text with num_points = 1 yields its second sentence.
C6_SelectsHighestScores ==
    (KeyPointsReturnedLocal /\ Len(sentences) > num)
        => /\ Cardinality(Selected) = num
           /\ \A i \in DOMAIN scored :
                 scored[i].idx \in Selected
                    <=> Cardinality({j \in DOMAIN scored : RanksBefore(scored[j], scored[i])}) < num
           /\ (text = MitochondriaText /\ num = 1)
                 => key_points = <<"Therefore this principle is important for biology students everywhere.">>

\* Two sentences of equal score, the earlier selected and the later not.
C6_Witness ==
    /\ KeyPointsReturnedLocal
    /\ Len(sentences) > num
    /\ \E i, j \in DOMAIN scored :
          /\ i < j
          /\ scored[i].score = scored[j].score
          /\ scored[i].idx \in Selected
          /\ scored[j].idx \notin Selected

\* The number of places of s at which sub starts.
Occurrences(s, sub) ==
    Cardinality({i \in 1..(Len(s) - Len(sub) + 1) : SubSeq(s, i, i + Len(sub) - 1) = sub})

\* The number of white-space separated words of s.
WordCount(s) == Len(Words(s))

\* The score with `per` counted for each of `hits` keyword finds.
ExpectedScore(s, idx, hits) ==
    (IF WordCount(s) >= 10 /\ WordCount(s) <= 25 THEN 10 ELSE 5)
    + 8 * hits
    + (IF 10 - (idx \div 3) > 0 THEN 10 - (idx \div 3) ELSE 0)

RECURSIVE SumOver(_, _)
\* The sum of f over the finite set S.
SumOver(S, f) ==
    IF S = {} THEN 0
    ELSE Let(CHOOSE x \in S : TRUE, LAMBDA x : f[x] + SumOver(S \ {x}, f))

\* The occurrences in s, lowered, of all the importance keywords together.
AllOccurrences(s) ==
    Let(Lower(s),
        LAMBDA low : SumOver(ImportantKeywords,
                             [k \in ImportantKeywords |-> Occurrences(low, k)]))

\* The importance keywords that occur in s, lowered, at least once.
KeywordsPresent(s) ==
    Let(Lower(s), LAMBDA low : Cardinality({k \in ImportantKeywords : Contains(low, k)}))

\* C7 as stated: the score is base + 8 * occ + positional bonus with occ the
\* number of occurrences of importance keywords, a keyword occurring twice
\* counting twice.
C7_ScorePerOccurrence ==
    KeyPointsReturnedLocal
        => \A i \in DOMAIN scored :
              scored[i].score
                 = ExpectedScore(scored[i].sentence, scored[i].idx,
                                 AllOccurrences(scored[i].sentence))

\* C7 amended: occ is the number of distinct importance keywords that occur in
\* the sentence at least once, so a keyword occurring twice contributes 8.
C7_ScorePerKeyword ==
    KeyPointsReturnedLocal
        => \A i \in DOMAIN scored :
              /\ scored[i].idx = i - 1
              /\ scored[i].sentence = sentences[i]
              /\ scored[i].score
                    = ExpectedScore(sentences[i], i - 1, KeywordsPresent(sentences[i]))

\* A scored sentence at position 3 that holds a keyword twice and one with a capital.
C7_Witness ==
    /\ KeyPointsReturnedLocal
    /\ Len(scored) = 4
    /\ Occurrences(scored[4].sentence, "key") = 2
    /\ Contains(scored[1].sentence, "Therefore")

\* C8 as stated: a text with no fragment longer than 20 makes generate_quiz
\* return exactly the placeholder question.
C8_ShortTextGivesPlaceholder ==
    (QuizReturnedLocal /\ NoLongFragment(text)) => quiz = <<Placeholder>>

\* C8 amended: for such a text generate_quiz, on the local path, builds no
\* question and returns the empty list: its one candidate is the sentinel of
\* extract_key_points, which has fewer than 8 words and is skipped.
C8_ShortTextGivesNoQuestion ==
    (fn = "generate_quiz" /\ ~openai_client /\ NoLongFragment(text))
        => /\ candidate_sentences = <<"No key points could be extracted.">>
           /\ pc \in {"for", "done"}
           /\ quiz_questions = <<>>
           /\ pc = "done" => (outcome = "local" /\ quiz = <<>>)

\* generate_quiz returned for a text of one short fragment.
C8_Witness == QuizReturnedLocal /\ text = "This is short." /\ quiz = <<>>

\* C9: a text with no fragment longer than 20 once trimmed makes
\* extract_key_points return the one-element sentinel list on the local path.
C9_ShortTextGivesSentinel ==
    (pc = "done" /\ fn = "extract_key_points" /\ ~openai_client /\ NoLongFragment(text))
        => /\ outcome = "local"
           /\ key_points = <<"No key points could be extracted.">>

\* extract_key_points returned for a text whose fragment has exactly 20 characters.
C9_Witness ==
    /\ KeyPointsReturnedLocal
    /\ text = "exactly twenty chars."
    /\ Len(Strip(ReSplit(text)[1])) = 20
    /\ key_points = <<"No key points could be extracted.">>

\* The lowered answers of the questions built so far in this call.
AnswersSoFar == {Lower(quiz_questions[i].correct_answer) : i \in DOMAIN quiz_questions}

\* C10: the answers of one call's questions are pairwise distinct ignoring
\* case, and the used-answer set holds the answers of the questions built or
\* being built and nothing else: a skipped sentence adds nothing to it.
C10_AnswersDistinct ==
    /\ \A i, j \in DOMAIN quiz_questions :
          i # j => Lower(quiz_questions[i].correct_answer)
                      # Lower(quiz_questions[j].correct_answer)
    /\ QuizReturnedLocal
          => \A i, j \in DOMAIN quiz :
                i # j => Lower(quiz[i].correct_answer) # Lower(quiz[j].correct_answer)
    /\ (fn = "generate_quiz" /\ ~openai_client)
          => used_answers
                = AnswersSoFar
                  \cup (IF pc \in {"opt_test", "opt_body", "shuffle"}
                        THEN {Lower(answer)} ELSE {})

\* Two questions were asked for, the first and the third candidate are the same
\* sentence, and only one question was returned: the third drew the used word.
C10_Witness ==
    /\ QuizReturnedLocal
    /\ num = 2
    /\ Len(candidate_sentences) = 3
    /\ candidate_sentences[1] = candidate_sentences[3]
    /\ Len(quiz) = 1
    /\ Len(quiz[1].options) = 4

\* The candidate sentence s has at least 8 words and a word that can be blanked.
ValidCandidate(s) ==
    Let(Words(s), LAMBDA ws : Len(ws) >= 8 /\ BlankCandidates(ws) # <<>>)

\* The number of valid candidates among the first n.
ValidAmong(cands, n) == Cardinality({i \in 1..n : i <= Len(cands) /\ ValidCandidate(cands[i])})

\* C11: on the local path generate_quiz has at most num_questions * 3
\* candidates; the questions built so far are at most one for each valid
\* candidate already passed and at most num_questions; the list returned has at
\* most min(num_questions, V) questions; when every candidate has fewer than 8
\* words no question is built and the empty list is returned.
C11_AtMostOnePerValidCandidate ==
    (fn = "generate_quiz" /\ ~openai_client)
        => /\ Len(candidate_sentences) <= num * 3
           /\ Len(quiz_questions) <= ValidAmong(candidate_sentences, si - 1)
           /\ Len(quiz_questions) <= num
           /\ pc = "done"
                => /\ quiz = quiz_questions
                   /\ Len(quiz)
                         <= Smaller(num, ValidAmong(candidate_sentences, Len(candidate_sentences)))
           /\ (\A i \in DOMAIN candidate_sentences : Len(Words(candidate_sentences[i])) < 8)
                => quiz_questions = <<>> /\ (pc = "done" => quiz = <<>>)

\* One question was asked for, two candidates are valid, and one question was
\* returned after the break.
C11_Witness ==
    /\ QuizReturnedLocal
    /\ num = 1
    /\ ValidAmong(candidate_sentences, Len(candidate_sentences)) = 2
    /\ Len(quiz) = 1
    /\ si <= Len(candidate_sentences)

\* The normalization of line 160: trim, then the full stop unless a terminator
\* ends the string.
TrimAndNormalize(s) == Normalize(Strip(s))

\* C14: every string extract_key_points returns on the local path (as key
\* points, or as the candidates of generate_quiz) ends in '.', '!' or '?', and
\* the normalization leaves it as it is; normalizing a qualifying sentence
\* twice gives what normalizing it once gives.
C14_NormalizeIdempotent ==
    /\ KeyPointsReturnedLocal
          => /\ \A i \in DOMAIN key_points :
                   /\ EndsWithTerminator(key_points[i])
                   /\ TrimAndNormalize(key_points[i]) = key_points[i]
             /\ \A i \in DOMAIN sentences :
                   TrimAndNormalize(TrimAndNormalize(sentences[i]))
                      = TrimAndNormalize(sentences[i])
    /\ (fn = "generate_quiz" /\ ~openai_client)
          => \A i \in DOMAIN candidate_sentences :
                /\ EndsWithTerminator(candidate_sentences[i])
                /\ TrimAndNormalize(candidate_sentences[i]) = candidate_sentences[i]

\* Two key points were returned, the first a sentence with its full stop.
C14_Witness ==
    /\ KeyPointsReturnedLocal
    /\ Len(key_points) = 2
    /\ Len(sentences) >= 2
    /\ key_points[1] = sentences[1] \o "."

\* The question qq blanks one token of the sentence s: its text is the tokens
\* of s joined by spaces inside the prefix, the token at one position replaced
\* by the marker, that token stripped of punctuation being the answer, and the
\* marker is found in the text once.
BlanksOneTokenOf(qtext, ans, s) ==
    Let(Words(s),
        LAMBDA ws :
            \E p \in DOMAIN ws :
                /\ StripPunct(ws[p]) = ans
                /\ qtext = "Complete the statement: \""
                             \o Join([i \in DOMAIN ws |->
                                         IF i = p THEN "__________" ELSE ws[i]], " ")
                             \o "\""
                /\ Occurrences(qtext, "__________") = 1)

IsPoolWord(w) ==
    /\ Len(w) > 5
    /\ Lower(w) \notin CommonWords
    /\ \E j \in DOMAIN candidate_sentences :
          \E tok \in Range(Words(candidate_sentences[j])) : StripPunct(tok) = w

\* The options opts suit the answer ans: each other option is a filler or a
\* word of the pool, and none of them is the answer in another case.
OptionsFromPool(opts, ans) ==
    \A i \in DOMAIN opts :
        opts[i] # ans
            => /\ \/ opts[i] \in {"Not " \o ans, "None of the above"}
                  \/ (opts[i] \in Range(all_potential_distractors) /\ IsPoolWord(opts[i]))
               /\ Lower(opts[i]) # Lower(ans)

\* C18: in every question built, being built or returned on the local path,
\* each option other than the correct answer is one of the two fillers or a
\* word of the call's distractor pool, and differs from the answer even when
\* case is ignored; exactly one option is the answer.
C18_OptionsFromPool ==
    (fn = "generate_quiz" /\ ~openai_client)
        => /\ \A q \in DOMAIN quiz_questions :
                 /\ OptionsFromPool(quiz_questions[q].options, quiz_questions[q].correct_answer)
                 /\ Cardinality({i \in DOMAIN quiz_questions[q].options :
                                    quiz_questions[q].options[i]
                                       = quiz_questions[q].correct_answer}) = 1
           /\ pc \in {"opt_test", "opt_body", "shuffle"} => OptionsFromPool(options, answer)
           /\ pc = "for"
                 => \A i \in DOMAIN all_potential_distractors :
                       IsPoolWord(all_potential_distractors[i])

\* A returned question of 4 options whose answer is in the pool in another case.
C18_Witness ==
    /\ QuizReturnedLocal
    /\ Len(quiz) >= 1
    /\ quiz[1].correct_answer = "Energy"
    /\ "energy" \in Range(all_potential_distractors)
    /\ Len(quiz[1].options) = 4

\* C13: two runs of extract_key_points on the local path with the same text
\* and the same num_points return the same list, the same sentences in the
\* same order, whatever the order in which each run walks the keyword set;
\* the list is the one the function of the text and num_points alone gives.
C13_KeyPointsDeterministic ==
    det_pc = "both"
        => /\ det_second = det_first
           /\ det_first = ExtractKeyPointsLocal(det_text, det_num).result

\* Two runs that walked the keywords in different orders and ranked three
\* sentences holding different keywords to return one.
C13_Witness ==
    /\ det_pc = "both"
    /\ det_order[1] # det_order[2]
    /\ det_num = 1
    /\ Len(Sentences(det_text)) = 3
    /\ Contains(det_text, "Therefore")
    /\ Contains(det_text, "key result")
    /\ det_first = <<"Therefore this principle is important for biology students everywhere.">>

\* The lowered answers of the questions the call with locals f has built or is
\* building.
AnswersOf(f) ==
    {Lower(f.quiz_questions[i].correct_answer) : i \in DOMAIN f.quiz_questions}
    \cup (IF f.pc \in {"opt_test", "opt_body", "shuffle"} THEN {Lower(f.answer)} ELSE {})

\* The locals of call t are those of a call running alone on its own text:
\* the sentence list and the pool are the functions of its text, its set
\* holds its own answers and nothing else, its questions are built from its
\* own sentences and pool, and it returns the questions it built.
AsWhenAlone(t) ==
    LET f == frame[t]
    IN  /\ (f.fn = "extract_key_points" /\ f.pc = "done")
              => f.result = ExtractKeyPointsLocal(f.text, f.num).result
        /\ f.fn = "generate_quiz"
              => /\ f.candidate_sentences = ExtractKeyPointsLocal(f.text, f.num * 3).result
                 /\ f.all_potential_distractors = DistractorPool(f.candidate_sentences)
                 /\ sets[f.used_answers] = AnswersOf(f)
                 /\ \A q \in DOMAIN f.quiz_questions :
                       /\ \E j \in DOMAIN f.candidate_sentences :
                             BlanksOneTokenOf(f.quiz_questions[q].question,
                                              f.quiz_questions[q].correct_answer,
                                              f.candidate_sentences[j])
                       /\ Range(f.quiz_questions[q].options)
                             \subseteq Range(f.all_potential_distractors)
                                       \cup Range(Padding(f.quiz_questions[q].correct_answer))
                 /\ f.pc = "done" => f.result = f.quiz_questions

\* A step of one call leaves the locals and the set of every other call as
\* they are.
StepIsLocal ==
    \A t \in Calls : \A u \in Calls \ {t} :
        frame'[t] # frame[t]
            => /\ frame'[u] = frame[u]
               /\ frame[u].fn = "generate_quiz"
                     => sets'[frame[u].used_answers] = sets[frame[u].used_answers]

\* C12: calls of extract_key_points and generate_quiz that run side by side
\* share no mutable state: under every interleaving each call's sentence list,
\* distractor pool, used-answer set and result are those of the call running
\* alone on its own input, and no step of a call changes what another holds.
C12_CallsShareNothing == [](\A t \in Calls : AsWhenAlone(t)) /\ [][StepIsLocal]_vars

\* Two calls of generate_quiz are under way at once, each has drawn the word
\* "Energy", and each has it in its own set.
C12_Witness ==
    /\ frame[1].fn = "generate_quiz"
    /\ frame[2].fn = "generate_quiz"
    /\ frame[1].pc = "opt_body"
    /\ frame[2].pc = "shuffle"
    /\ frame[1].answer = "Energy"
    /\ frame[2].answer = "Energy"
    /\ sets[frame[1].used_answers] = {"energy"}
    /\ sets[frame[2].used_answers] = {"energy"}

\* The positions in db of the records request r inserted.
RecordsOf(r) == {i \in DOMAIN db : db[i].owner = r}

\* C15: a request inserts at most one lecture record, and only after
\* transcription, summarization, key-point extraction and quiz generation
\* have completed in that order; a request whose transcription raised or
\* returned fewer than 10 characters, or whose insertion raised, has ended
\* with an error response and never with success; in the transcription
\* failures it has inserted no record.
C15_PersistOnceAfterAllStages ==
    \A r \in Requests :
        /\ Cardinality(RecordsOf(r)) <= 1
        /\ RecordsOf(r) # {}
              => /\ Len(req[r].stages) >= 5
                 /\ SubSeq(req[r].stages, 1, 5)
                       = <<"transcribe", "summarize", "key_points", "quiz", "persist">>
        /\ (req[r].stages # <<>> /\ Len(req[r].transcript) < 10)
              => /\ req[r].pc = "done"
                 /\ req[r].status = 400
                 /\ RecordsOf(r) = {}
        /\ req[r].failure \in {"transcribe_raised", "persist_raised"}
              => /\ req[r].pc = "done"
                 /\ req[r].status = 500
        /\ req[r].failure = "transcribe_raised" => RecordsOf(r) = {}
        /\ req[r].status = 200
              => /\ req[r].failure = "none"
                 /\ Len(req[r].transcript) >= 10
                 /\ Cardinality(RecordsOf(r)) = 1

\* One request succeeded and inserted its record, the other was answered 400
\* for a transcript of 9 characters.
C15_Witness ==
    /\ req[1].status = 200
    /\ Len(db) = 1
    /\ req[2].pc = "done"
    /\ req[2].status = 400
    /\ req[2].transcript = "So short."

\* C20: a request that ended with an error response after its audio file was
\* written has no file left in the upload directory; a file is left only by
\* a request that ended with success.
C20_ErrorRemovesFile ==
    \A r \in Requests :
        /\ (req[r].pc = "done" /\ req[r].status \in {400, 500} /\ req[r].saved)
              => r \notin disk
        /\ (req[r].pc = "done" /\ r \in disk) => req[r].status = 200

\* C19: under every interleaving of the workers' first calls, the constructor
\* of each model runs at most once, and every caller of a loader receives the
\* same instance.
C19_ModelBuiltOnce ==
    /\ \A l \in Loaders : built[l] <= 1
    /\ \A v, w \in Workers :
          (wk[v].pc = "done" /\ wk[w].pc = "done" /\ wk[v].loader = wk[w].loader)
              => wk[v].got = wk[w].got

\* The lectures of the collection whose title or transcript matches q, as
\* list items.
MatchingItems(q) ==
    {ListItem(d) : d \in {e \in lectures : \/ RegexMatches(q, e.title)
                                           \/ RegexMatches(q, e.transcript)}}

\* C21: a GET request to /api/lectures/search with a query q of at least 2
\* characters is handled by search_lectures and answered with the list of the
\* lectures whose title or transcript matches q; it is never dispatched to
\* get_lecture with lecture_id = "search".
C21_SearchReachesSearchLectures ==
    (/\ http.method = "GET"
     /\ http.path = "/api/lectures/search"
     /\ Len(http.q) >= 2)
        => /\ http.pc \in {"routed", "done"}
                => /\ http.endpoint = "search_lectures"
                   /\ ~(http.endpoint = "get_lecture" /\ http.lecture_id = "search")
           /\ http.pc = "done"
                => /\ http.status = 200
                   /\ Range(http.items) = MatchingItems(http.q)
                   /\ Len(http.items) = Cardinality(MatchingItems(http.q))

====
